---- MODULE Spec2Model ----
(***************************************************************************)
(* SchedViz: construction of a sched.Collection from an event set          *)
(* (NewCollection, buildSpansByPID, buildSpansByCPU, GetRawEvents) and the *)
(* trace_to_proto_converter command that produces the event set.           *)
(*                                                                         *)
(* The span engine (threadSpanSet), the event loaders, the CPU span set    *)
(* and traceparser.CPUOverflowed are modelled from the design document     *)
(* (sections 4.E, 4.F, 4.G and 4.B); everything else follows the Go code.  *)
(* Priorities and command ids are carried by no modelled event and are     *)
(* left out of the per-PID tuple.                                          *)
(***************************************************************************)
EXTENDS Integers, Sequences, FiniteSets, TLC

\* ------------------------------------------------------------------ bounds
MaxEvents == 2
MaxTs == 1
NumPIDs == 3
NumCPUs == 2
MaxCPUFile == 1
MaxDigits == 2
MaxScenarioEvents == 3
MaxFormatPaths == 3
MaxTraceCPUs == 11

\* --------------------------------------------------------------- constants
UnknownTimestamp == -1
UnknownCPU == -1
UnknownPID == -1
UnknownCommand == 0
UnknownState == "UNKNOWN"
RunningState == "RUNNING"
WaitingState == "WAITING"
SleepingState == "SLEEPING"

PIDs == 1..NumPIDs
CPUs == 0..(NumCPUs - 1)

VARIABLES
  c,          \* the sched.Collection under construction / constructed
  events,     \* the events of the event set read so far (c.TraceCollection)
  pc,         \* "building", "ready" (NewCollection returned c), "failed"
  rawEvents,  \* the events returned by the last GetRawEvents call
  query,      \* the last query on the collection and what it returned
  fs,         \* converter: the trace and stats directories on disk
  conv,       \* converter: the state of main()
  formats,    \* converter: the flags and the reading of the format files
  stats,      \* the counters of the stats text handed to CPUOverflowed
  overflow    \* the result of the last CPUOverflowed call

collVars == <<c, events, pc, rawEvents, query>>
convVars == <<fs, conv, formats>>
statsVars == <<stats, overflow>>
vars ==
  <<c, events, pc, rawEvents, query, fs, conv, formats, stats, overflow>>

\* ------------------------------------------------------------ event set
\* An event of the event set.  For sched_switch, pid is prev_pid; for
\* sched_wakeup, cpu and other_cpu are target_cpu; for sched_migrate_task,
\* cpu is orig_cpu and other_cpu is dest_cpu.
Event(name, cpu, p, s, n, oc) ==
  [name |-> name, cpu |-> cpu, timestamp |-> 0, clipped |-> FALSE,
   pid |-> p, prev_state |-> s, next_pid |-> n, other_cpu |-> oc]

\* The event universe: context switches between threads 1 and 2 and from
\* every other thread to thread 1, wakeups and migrations of thread 1 over
\* the CPUs, a wakeup of thread 2, and an event no loader is registered for.
SwitchPairs == {<<1, 2>>, <<2, 1>>} \cup { <<n, 1>> : n \in 3..NumPIDs }

SwitchShapes ==
  { Event("sched_switch", 0, pn[1], 0, pn[2], UnknownCPU) :
      pn \in SwitchPairs }
    \cup { Event("sched_switch", cpu, 1, 0, 2, UnknownCPU) : cpu \in CPUs }
    \cup { Event("sched_switch", 0, 1, 1, 2, UnknownCPU) }

WakeupShapes ==
  { Event("sched_wakeup", tc, 1, 0, UnknownPID, tc) : tc \in CPUs }
    \cup { Event("sched_wakeup", 0, 2, 0, UnknownPID, 0) }

MigrateShapes ==
  { Event("sched_migrate_task", 0, 1, 0, UnknownPID, d) :
      d \in CPUs \ {0} }
    \cup { Event("sched_migrate_task", 1, 1, 0, UnknownPID, 0) }

\* An event no loader is registered for.
OtherShapes ==
  { Event("other", 0, UnknownPID, 0, UnknownPID, UnknownCPU) }

Shapes == SwitchShapes \cup WakeupShapes \cup MigrateShapes \cup OtherShapes

\* The scheduling events that also occur clipped, or with the timestamp -1.
FewShapes ==
  { Event("sched_wakeup", 0, 1, 0, UnknownPID, 0),
    Event("sched_switch", 0, 1, 0, 2, UnknownCPU) }

\* Events carry the first or the last timestamp of the trace.
Timestamps == {0, MaxTs}

Events ==
  { [e EXCEPT !.timestamp = t] : e \in Shapes, t \in Timestamps }
    \cup { [e EXCEPT !.timestamp = t, !.clipped = TRUE] :
             e \in FewShapes, t \in Timestamps }

\* Events whose timestamp has the value of the unknown-timestamp sentinel.
SentinelEvents ==
  { [e EXCEPT !.timestamp = UnknownTimestamp] :
      e \in FewShapes \cup OtherShapes }

\* ------------------------------------------------------ transition builder
Transition(idx, t, p, ps, ns, pcpu, ncpu) ==
  [eventIndex |-> idx, timestamp |-> t, pid |-> p, prevState |-> ps,
   nextState |-> ns, prevCPU |-> pcpu, nextCPU |-> ncpu]

threadTransitions(ev, idx) ==
  CASE ev.name = "sched_switch" ->
         << Transition(idx, ev.timestamp, ev.pid, RunningState,
                       IF ev.prev_state = 0 THEN WaitingState
                                            ELSE SleepingState,
                       ev.cpu, ev.cpu),
            Transition(idx, ev.timestamp, ev.next_pid, WaitingState,
                       RunningState, ev.cpu, ev.cpu) >>
    [] ev.name = "sched_wakeup" ->
         << Transition(idx, ev.timestamp, ev.pid, SleepingState,
                       WaitingState, UnknownCPU, ev.other_cpu) >>
    [] ev.name = "sched_migrate_task" ->
         << Transition(idx, ev.timestamp, ev.pid, WaitingState,
                       WaitingState, ev.cpu, ev.other_cpu) >>
    [] OTHER -> << >>

\* ------------------------------------------------------------ string bank
\* The command of a thread, as the prev_comm and next_comm text properties of
\* a sched_switch event give it: thread 1 runs one command, every other
\* thread another.
Comm(p) == IF p = 1 THEN "init" ELSE "worker"

\* stringBank.stringIDByString: the id of a string that is in the table, or
\* the next id for a string that is appended.  Id 0 is UnknownCommand; the
\* k-th string of the table has id k.
intern(stringTable, str) ==
  IF \E k \in 1..Len(stringTable) : stringTable[k] = str
    THEN stringTable
    ELSE Append(stringTable, str)

\* The sched_switch loader interns prev_comm and then next_comm; the other
\* loaders read no command.
internCommands(st, ev) ==
  IF ev.name = "sched_switch"
    THEN [st EXCEPT !.stringTable =
                      intern(intern(@, Comm(ev.pid)), Comm(ev.next_pid))]
    ELSE st

stringByID(stringTable, id) ==
  IF id \in 1..Len(stringTable)
    THEN [str |-> stringTable[id], err |-> FALSE]
    ELSE [str |-> "", err |-> TRUE]

\* ------------------------------------------------------------ span engine
Span(p, cpu, st, s, e) ==
  [pid |-> p, cpu |-> cpu, state |-> st, startTimestamp |-> s,
   endTimestamp |-> e]

NoThreadSpanSet ==
  [made |-> FALSE, startTimestamp |-> 0, lastTimestamp |-> 0,
   cur |-> [p \in PIDs |-> [seen |-> FALSE, cpu |-> UnknownCPU,
                            state |-> UnknownState, start |-> 0]],
   spans |-> [p \in PIDs |-> << >>],
   droppedEventCountsByID |-> [i \in {} |-> 0],
   syntheticTransitionCount |-> 0]

newThreadSpanSet(startTimestamp) ==
  [NoThreadSpanSet EXCEPT
     !.made = TRUE,
     !.startTimestamp = startTimestamp,
     !.lastTimestamp = startTimestamp,
     !.cur = [p \in PIDs |-> [seen |-> FALSE, cpu |-> UnknownCPU,
                              state |-> UnknownState,
                              start |-> startTimestamp]]]

\* Unification of one field of the current tuple with a prev-condition.
Unify(current, prev, unknown) ==
  IF current # unknown THEN current ELSE prev

Conflict(current, prev, unknown) ==
  current # unknown /\ prev # unknown /\ current # prev

\* Variant of applyTransition in which the closing span keeps the current
\* tuple and a prev-condition does not fill a field that is unknown.
applyTransition_NoBackfill(ts, tt) ==
  LET cur  == ts.cur[tt.pid]
      ncpu == Unify(tt.nextCPU, cur.cpu, UnknownCPU)
      nst  == Unify(tt.nextState, cur.state, UnknownState)
  IN [ts EXCEPT
        !.spans[tt.pid] = Append(@, Span(tt.pid, cur.cpu, cur.state,
                                         cur.start, tt.timestamp)),
        !.cur[tt.pid] = [seen |-> TRUE, cpu |-> ncpu, state |-> nst,
                         start |-> tt.timestamp],
        !.lastTimestamp = tt.timestamp]

\* Steps 1-3 of the per-PID state machine for a transition that unifies.
applyTransition(ts, tt) ==
  LET cur   == ts.cur[tt.pid]
      cpu   == Unify(cur.cpu, tt.prevCPU, UnknownCPU)
      state == Unify(cur.state, tt.prevState, UnknownState)
      ncpu  == Unify(tt.nextCPU, cpu, UnknownCPU)
      nst   == Unify(tt.nextState, state, UnknownState)
  IN [ts EXCEPT
        !.spans[tt.pid] = Append(@, Span(tt.pid, cpu, state, cur.start,
                                         tt.timestamp)),
        !.cur[tt.pid] = [seen |-> TRUE, cpu |-> ncpu, state |-> nst,
                         start |-> tt.timestamp],
        !.lastTimestamp = tt.timestamp]

Bump(f, i) ==
  IF i \in DOMAIN f THEN [f EXCEPT ![i] = @ + 1]
  ELSE [j \in (DOMAIN f) \cup {i} |-> IF j = i THEN 1 ELSE f[j]]

\* Variant of addTransition that counts a transition with a CPU conflict as
\* dropped and applies it all the same.
addTransition_DropApplies(ts, tt) ==
  LET cur == ts.cur[tt.pid] IN
  IF tt.timestamp < ts.lastTimestamp
    THEN [ts |-> ts, err |-> TRUE]
  ELSE IF Conflict(cur.cpu, tt.prevCPU, UnknownCPU)
    THEN [ts |-> applyTransition(
                   [ts EXCEPT !.droppedEventCountsByID =
                                 Bump(@, tt.eventIndex)], tt),
          err |-> FALSE]
  ELSE IF Conflict(cur.state, tt.prevState, UnknownState)
    THEN LET syn == Transition(tt.eventIndex, tt.timestamp, tt.pid,
                               cur.state, tt.prevState, cur.cpu, tt.prevCPU)
             ts1 == applyTransition(ts, syn)
         IN [ts |-> applyTransition(
                      [ts1 EXCEPT !.syntheticTransitionCount = @ + 1], tt),
             err |-> FALSE]
  ELSE [ts |-> applyTransition(ts, tt), err |-> FALSE]

addTransition(ts, tt) ==
  LET cur == ts.cur[tt.pid] IN
  IF tt.timestamp < ts.lastTimestamp
    THEN [ts |-> ts, err |-> TRUE]
  ELSE IF Conflict(cur.cpu, tt.prevCPU, UnknownCPU)
    THEN \* DROP_SELF
         [ts |-> [ts EXCEPT !.droppedEventCountsByID =
                                Bump(@, tt.eventIndex)],
          err |-> FALSE]
  ELSE IF Conflict(cur.state, tt.prevState, UnknownState)
    THEN \* INSERT_SYNTHETIC
         LET syn == Transition(tt.eventIndex, tt.timestamp, tt.pid,
                               cur.state, tt.prevState, cur.cpu, tt.prevCPU)
             ts1 == applyTransition(ts, syn)
         IN [ts |-> applyTransition(
                      [ts1 EXCEPT !.syntheticTransitionCount = @ + 1], tt),
             err |-> FALSE]
  ELSE [ts |-> applyTransition(ts, tt), err |-> FALSE]

\* threadSpans(endTimestamp): close every open per-PID span.
threadSpans(ts, endTimestamp) ==
  [p \in { q \in PIDs : ts.cur[q].seen } |->
     Append(ts.spans[p],
            Span(p, ts.cur[p].cpu, ts.cur[p].state, ts.cur[p].start,
                 endTimestamp))]

\* ------------------------------------------------------------- Collection
NewCollectionValue(normalize) ==
  [options |-> [normalizeTimestamps |-> normalize],
   stringTable |-> << >>,
   normalizationOffset |-> UnknownTimestamp,
   startTimestamp |-> 0,
   endTimestamp |-> 0,
   ts |-> NoThreadSpanSet,
   ThreadTransitions |-> << >>,
   spansByPID |-> [p \in {} |-> << >>],
   droppedEventCountsByID |-> [i \in {} |-> 0],
   syntheticTransitionCount |-> 0,
   pids |-> {},
   cpus |-> {},
   runningSpansByCPU |-> [x \in {} |-> << >>],
   sleepingSpansByCPU |-> [x \in {} |-> {}],
   waitingSpansByCPU |-> [x \in {} |-> {}],
   err |-> FALSE]

RECURSIVE addTransitions_IgnoreError(_, _, _)
\* Variant of addTransitions that goes on after an error of addTransition.
addTransitions_IgnoreError(st, tts, i) ==
  IF i > Len(tts) THEN st
  ELSE LET r == addTransition(st.ts, tts[i])
       IN addTransitions_IgnoreError([st EXCEPT !.ts = r.ts], tts, i + 1)

RECURSIVE addTransitions(_, _, _)
addTransitions(st, tts, i) ==
  IF i > Len(tts) \/ st.err THEN st
  ELSE LET r == addTransition(st.ts, tts[i])
       IN addTransitions([st EXCEPT !.ts = r.ts, !.err = r.err], tts, i + 1)

\* "If the normalization offset hasn't yet been set, do so."
setNormalizationOffset(st, ev) ==
  IF st.normalizationOffset = UnknownTimestamp
    THEN LET off == IF st.options.normalizeTimestamps
                      THEN ev.timestamp ELSE 0
         IN [st EXCEPT !.normalizationOffset = off,
                       !.startTimestamp = ev.timestamp - off]
    ELSE st

\* Variant of addEventTransitions that sets the end timestamp only when the
\* span set is created.
addEventTransitions_EndSetOnce(st, ev, tts) ==
  LET s2 == IF ~st.ts.made
              THEN [st EXCEPT
                      !.ts = newThreadSpanSet(st.startTimestamp),
                      !.endTimestamp =
                         ev.timestamp - st.normalizationOffset]
              ELSE st
      ntts == [i \in 1..Len(tts) |->
                 [tts[i] EXCEPT !.timestamp = @ - s2.normalizationOffset]]
  IN addTransitions([s2 EXCEPT !.ThreadTransitions = ntts], ntts, 1)

\* The span set is created on first use, the end timestamp and the exported
\* transitions are replaced, and the event's transitions, shifted by the
\* offset, are added to the span set.
addEventTransitions(st, ev, tts) ==
  LET s2 == IF ~st.ts.made
              THEN [st EXCEPT !.ts = newThreadSpanSet(st.startTimestamp)]
              ELSE st
      ntts == [i \in 1..Len(tts) |->
                 [tts[i] EXCEPT !.timestamp = @ - s2.normalizationOffset]]
      s3 == [s2 EXCEPT
               !.endTimestamp = ev.timestamp - s2.normalizationOffset,
               !.ThreadTransitions = ntts]
  IN addTransitions(s3, ntts, 1)

\* Variant of LoopBody that does not bypass clipped events.
LoopBody_NoClipBypass(st, ev, eventIndex) ==
  LET tts == threadTransitions(ev, eventIndex)
      s0  == internCommands(st, ev)
  IN IF Len(tts) = 0 THEN s0
     ELSE addEventTransitions(setNormalizationOffset(s0, ev), ev, tts)

\* Variant of LoopBody that sets the offset before it skips the events that
\* make no transitions.
LoopBody_OffsetBeforeSkip(st, ev, eventIndex) ==
  IF ev.clipped THEN st
  ELSE
    LET tts == threadTransitions(ev, eventIndex)
        s1  == setNormalizationOffset(internCommands(st, ev), ev)
    IN IF Len(tts) = 0 THEN s1 ELSE addEventTransitions(s1, ev, tts)

\* Variant of LoopBody that sets the end timestamp before it skips the events
\* that make no transitions.
LoopBody_EndBeforeSkip(st, ev, eventIndex) ==
  IF ev.clipped THEN st
  ELSE
    LET tts == threadTransitions(ev, eventIndex)
        s0  == internCommands(st, ev)
    IN IF Len(tts) = 0
         THEN [s0 EXCEPT !.endTimestamp =
                           ev.timestamp - s0.normalizationOffset]
       ELSE addEventTransitions(setNormalizationOffset(s0, ev), ev, tts)

\* One iteration of the event loop of buildSpansByPID.
LoopBody(st, ev, eventIndex) ==
  IF ev.clipped THEN st
  ELSE
    LET tts == threadTransitions(ev, eventIndex)
        s0  == internCommands(st, ev)
    IN IF Len(tts) = 0 THEN s0
       ELSE addEventTransitions(setNormalizationOffset(s0, ev), ev, tts)

\* Variant of buildSpansByPIDFinish without the check for a span set that
\* was never created.
buildSpansByPIDFinish_NoNilCheck(st) ==
  [st EXCEPT
     !.spansByPID = threadSpans(st.ts, st.endTimestamp),
     !.droppedEventCountsByID = st.ts.droppedEventCountsByID,
     !.syntheticTransitionCount = st.ts.syntheticTransitionCount]

\* Variant of buildSpansByPIDFinish that leaves the dropped-event map of the
\* collection as NewCollection made it.
buildSpansByPIDFinish_NoDroppedCounts(st) ==
  IF ~st.ts.made THEN [st EXCEPT !.err = TRUE]
  ELSE [st EXCEPT
          !.spansByPID = threadSpans(st.ts, st.endTimestamp),
          !.syntheticTransitionCount = st.ts.syntheticTransitionCount]

\* Variant of buildSpansByPIDFinish that does not copy the count of
\* synthetic transitions.
buildSpansByPIDFinish_NoSyntheticCount(st) ==
  IF ~st.ts.made THEN [st EXCEPT !.err = TRUE]
  ELSE [st EXCEPT
          !.spansByPID = threadSpans(st.ts, st.endTimestamp),
          !.droppedEventCountsByID = st.ts.droppedEventCountsByID]

\* The part of buildSpansByPID that follows the event loop.
buildSpansByPIDFinish(st) ==
  IF ~st.ts.made THEN [st EXCEPT !.err = TRUE]
  ELSE [st EXCEPT
          !.spansByPID = threadSpans(st.ts, st.endTimestamp),
          !.droppedEventCountsByID = st.ts.droppedEventCountsByID,
          !.syntheticTransitionCount = st.ts.syntheticTransitionCount]

\* Orders in which Go may iterate over the keys of a map.
IterationOrders(S) ==
  { o \in [1..Cardinality(S) -> S] :
      \A i, j \in 1..Cardinality(S) : i # j => o[i] # o[j] }

RECURSIVE Flatten(_, _, _)
Flatten(spansByPID, order, i) ==
  IF i > Len(order) THEN << >>
  ELSE spansByPID[order[i]] \o Flatten(spansByPID, order, i + 1)

\* cpuSpanSet.addSpan / cpuTrees: running spans form a vector sorted by
\* start timestamp (elements with equal start keep their insertion order).
RECURSIVE SortByStart(_)
SortByStart(s) ==
  IF Len(s) <= 1 THEN s
  ELSE LET rest == SortByStart(SubSeq(s, 1, Len(s) - 1))
           x    == s[Len(s)]
           k    == Cardinality({ i \in 1..Len(rest) :
                                   rest[i].startTimestamp
                                     <= x.startTimestamp })
       IN SubSeq(rest, 1, k) \o << x >> \o SubSeq(rest, k + 1, Len(rest))

cpuTrees(added) ==
  LET cs == { added[i].cpu : i \in 1..Len(added) }
      On(cpu, state) ==
        SelectSeq(added, LAMBDA sp : sp.cpu = cpu /\ sp.state = state)
      Range(q) == { q[i] : i \in 1..Len(q) }
  IN [running  |-> [cpu \in cs |-> SortByStart(On(cpu, RunningState))],
      sleeping |-> [cpu \in cs |-> Range(On(cpu, SleepingState))],
      waiting  |-> [cpu \in cs |-> Range(On(cpu, WaitingState))]]

\* Variant of buildSpansByCPU that also adds the spans whose CPU or PID is
\* unknown.
buildSpansByCPU_NoUnknownSkip(st, order) ==
  LET added == Flatten(st.spansByPID, order, 1)
      trees == cpuTrees(added)
  IN [st EXCEPT
        !.pids = { added[i].pid : i \in 1..Len(added) },
        !.cpus = { added[i].cpu : i \in 1..Len(added) },
        !.runningSpansByCPU = trees.running,
        !.sleepingSpansByCPU = trees.sleeping,
        !.waitingSpansByCPU = trees.waiting]

buildSpansByCPU(st, order) ==
  LET all   == Flatten(st.spansByPID, order, 1)
      added == SelectSeq(all, LAMBDA sp : ~(sp.cpu = UnknownCPU
                                            \/ sp.pid = UnknownPID))
      trees == cpuTrees(added)
  IN [st EXCEPT
        !.pids = { added[i].pid : i \in 1..Len(added) },
        !.cpus = { added[i].cpu : i \in 1..Len(added) },
        !.runningSpansByCPU = trees.running,
        !.sleepingSpansByCPU = trees.sleeping,
        !.waitingSpansByCPU = trees.waiting]

\* cpuLookupFunc: the CPUs an event is attributed to.
cpuLookupFunc(ev) ==
  IF ev.clipped THEN {}
  ELSE CASE ev.name = "sched_migrate_task" -> {ev.cpu}
         [] ev.name = "sched_wakeup" -> {ev.other_cpu}
         [] OTHER -> {ev.cpu}

\* perCPUColl.EventIndices(filters): indices of the events attributed to a
\* filtered-in CPU, the filter being intersected with the cached CPU set.
EventIndices(st, evs, filterCPUs) ==
  SelectSeq([i \in 1..Len(evs) |-> i],
            LAMBDA i : cpuLookupFunc(evs[i]) \cap (st.cpus \cap filterCPUs)
                         # {})

GetRawEventsResult(st, evs, filterCPUs) ==
  LET idx == EventIndices(st, evs, filterCPUs)
  IN [k \in 1..Len(idx) |->
        [index |-> idx[k] - 1,
         timestamp |-> evs[idx[k]].timestamp - st.normalizationOffset]]

NilCollection == NewCollectionValue(FALSE)

\* ---------------------------------------------------------------- queries
\* Variant of DroppedEventIDsResult without the sort.
DroppedEventIDsResult_Unsorted(order) == order

\* Variant of EventByIndexStore in which EventByIndex hands out the stored
\* event itself, so that the adjusted timestamp is written to the store.
EventByIndexStore_WriteThrough(st, evs, filterCPUs) ==
  [i \in 1..Len(evs) |->
     IF cpuLookupFunc(evs[i]) \cap (st.cpus \cap filterCPUs) # {}
       THEN [evs[i] EXCEPT !.timestamp = @ - st.normalizationOffset]
       ELSE evs[i]]

\* trace.Collection.EventByIndex hands out a fresh event: the adjustment of
\* its timestamp in GetRawEvents does not reach the stored events.
EventByIndexStore(st, evs, filterCPUs) == evs

RECURSIVE SortInts(_)
\* sort.Slice with the comparison a < b.
SortInts(s) ==
  IF Len(s) <= 1 THEN s
  ELSE LET rest == SortInts(SubSeq(s, 1, Len(s) - 1))
           x    == s[Len(s)]
           k    == Cardinality({ i \in 1..Len(rest) : rest[i] <= x })
       IN SubSeq(rest, 1, k) \o << x >> \o SubSeq(rest, k + 1, Len(rest))

\* A set of integers as the sequence of its elements in increasing order.
ExpandSet(S) ==
  SortInts(CHOOSE o \in [1..Cardinality(S) -> S] :
             \A i, j \in 1..Cardinality(S) : i # j => o[i] # o[j])

\* A query and its result: the arguments, the returned numbers, the returned
\* string and the returned error.
Query(op, arg, ints) ==
  [op |-> op, arg |-> arg, ints |-> ints, str |-> "", err |-> FALSE]

NoQuery == Query("none", << >>, << >>)

\* The string ids LookupCommand is called with.
StringIDs == -1..3

\* Variant of LookupCommandResult that looks every id up in the string
\* table.
LookupCommandResult_NoUnknownCase(st, command) ==
  LET r == stringByID(st.stringTable, command) IN
  IF r.err THEN [str |-> "", err |-> TRUE]
  ELSE [str |-> r.str, err |-> FALSE]

LookupCommandResult(st, command) ==
  IF command = UnknownCommand THEN [str |-> "<unknown>", err |-> FALSE]
  ELSE LET r == stringByID(st.stringTable, command) IN
       IF r.err THEN [str |-> "", err |-> TRUE]
       ELSE [str |-> r.str, err |-> FALSE]

\* The time ranges of a TimeRange filter: inside the trace, inverted, and
\* past the end of the trace.
TimeRanges ==
  { <<0, 1>>, <<1, 0>>, <<MaxScenarioEvents + 1, MaxScenarioEvents + 1>> }

\* buildFilter: the collection's interval clipped to the filter's range.
buildFilter(st, r) ==
  [startTimestamp |-> IF r[1] > st.startTimestamp
                        THEN r[1] ELSE st.startTimestamp,
   endTimestamp |-> IF r[2] < st.endTimestamp
                      THEN r[2] ELSE st.endTimestamp]

\* Interval returns the two timestamps of the filter and nothing else.
IntervalResult(st, r) ==
  << buildFilter(st, r).startTimestamp, buildFilter(st, r).endTimestamp >>

\* The keys of droppedEventCountsByID in the order of the map iteration,
\* then sorted.
DroppedEventIDsResult(order) == SortInts(order)

\* CPUs(filters): the cached CPU set clipped to the filtered-in CPUs.
CPUsResult(st, filterCPUs) == st.cpus \cap filterCPUs

ExpandCPUsResult(cpus, order) ==
  IF Len(cpus) = 0 THEN SortInts(order) ELSE cpus

\* ------------------------------------------------------------ stats text
\* A stats text is a sequence of "key: value" lines; a value is a sequence
\* of characters.
Chars == {"0", "1", "x"}

DigitValue(ch) == IF ch = "1" THEN 1 ELSE 0

IsDigit(ch) == ch \in {"0", "1"}

Values == UNION { [1..n -> Chars] : n \in 1..MaxDigits }

RECURSIVE ParseInt(_)
\* The number written by a sequence of decimal digits, or -1 when the
\* sequence is empty or holds another character.
ParseInt(v) ==
  IF Len(v) = 0 THEN -1
  ELSE IF ~IsDigit(v[Len(v)]) THEN -1
  ELSE IF Len(v) = 1 THEN DigitValue(v[1])
  ELSE LET hi == ParseInt(SubSeq(v, 1, Len(v) - 1))
       IN IF hi < 0 THEN -1 ELSE 10 * hi + DigitValue(v[Len(v)])

Line(key, val) == [key |-> key, val |-> val]

\* Variant of createStatsString that writes the dropped events counter on
\* the read events line.
createStatsString_DroppedAsRead(st) ==
  << Line("entries", st.entries),
     Line("overrun", st.overrun),
     Line("commit overrun", st.commitOverrun),
     Line("bytes", <<"1", "0">>),
     Line("dropped events", <<"0">>),
     Line("read events", st.droppedEvents) >>

\* The text createStatsString builds from the three counters.
createStatsString(st) ==
  << Line("entries", st.entries),
     Line("overrun", st.overrun),
     Line("commit overrun", st.commitOverrun),
     Line("bytes", <<"1", "0">>),
     Line("dropped events", st.droppedEvents),
     Line("read events", <<"1", "1">>) >>

OverflowKeys == {"overrun", "commit overrun", "dropped events"}

NoResult == [called |-> FALSE, overflowed |-> FALSE, err |-> FALSE]

Stats(entries, overrun, commitOverrun, droppedEvents) ==
  [entries |-> entries, overrun |-> overrun,
   commitOverrun |-> commitOverrun, droppedEvents |-> droppedEvents]

NoStats == Stats(<<"0">>, <<"0">>, <<"0">>, <<"0">>)

RECURSIVE ScanStats(_, _)
\* The lines are read in order: a counter that does not parse is an error,
\* a counter that is not zero marks the CPU as overflowed.
ScanStats(text, i) ==
  IF i > Len(text) THEN [overflowed |-> FALSE, err |-> FALSE]
  ELSE IF text[i].key \notin OverflowKeys THEN ScanStats(text, i + 1)
  ELSE LET n == ParseInt(text[i].val) IN
       IF n < 0 THEN [overflowed |-> FALSE, err |-> TRUE]
       ELSE IF n # 0 THEN [overflowed |-> TRUE, err |-> FALSE]
       ELSE ScanStats(text, i + 1)

CPUOverflowed(text) == ScanStats(text, 1)

\* -------------------------------------------------------------- converter
\* Files are named cpuN; a directory maps the numbers N of its files to
\* their contents.  A trace file holds one event; a file may also hold a
\* stats text.
CPUFileNumbers == 0..MaxCPUFile

TraceContent == [kind |-> "trace", text |-> << >>]

StatsContent(text) == [kind |-> "stats", text |-> text]

FewStatsTexts ==
  { createStatsString(Stats(<<"1">>, <<"0">>, <<"0">>, <<"0">>)),
    createStatsString(Stats(<<"1">>, <<"1">>, <<"0">>, <<"0">>)),
    createStatsString(Stats(<<"1">>, <<"0">>, <<"0">>, <<"1", "0">>)),
    createStatsString(Stats(<<"1">>, <<"0">>, <<"x">>, <<"0">>)) }

RECURSIVE Digits(_)
Digits(n) == IF n < 10 THEN << n >> ELSE Digits(n \div 10) \o << n % 10 >>

RECURSIVE LexLess(_, _)
LexLess(a, b) ==
  IF Len(a) = 0 THEN Len(b) > 0
  ELSE IF Len(b) = 0 THEN FALSE
  ELSE IF a[1] # b[1] THEN a[1] < b[1]
  ELSE LexLess(Tail(a), Tail(b))

RECURSIVE ReadDir(_)
\* ioutil.ReadDir: the names of a directory, sorted by file name.
ReadDir(names) ==
  IF names = {} THEN << >>
  ELSE LET first == CHOOSE n \in names :
                      \A m \in names \ {n} : LexLess(Digits(n), Digits(m))
       IN << first >> \o ReadDir(names \ {first})

NoFiles ==
  [traceDir |-> [n \in {} |-> TraceContent],
   statsDir |-> [n \in {} |-> TraceContent],
   statsFilesPath |-> ""]

IdleConverter ==
  [pc |-> "idle", traceFiles |-> << >>, statsFiles |-> << >>, i |-> 0,
   overflowedCPUs |-> {}, emitted |-> << >>]

Directories(contents) ==
  UNION { [names -> contents] : names \in SUBSET CPUFileNumbers }

\* --stats_files is absent (""), names the trace directory or names another
\* directory.
FileSystems ==
  { [traceDir |-> t, statsDir |-> t, statsFilesPath |-> sp] :
      t \in Directories({TraceContent}
                          \cup { StatsContent(x) : x \in FewStatsTexts }),
      sp \in {"", "trace"} }
  \cup
  { [traceDir |-> t, statsDir |-> sd, statsFilesPath |-> "stats"] :
      t \in Directories({TraceContent}),
      sd \in Directories({ StatsContent(x) : x \in FewStatsTexts }) }

\* The elements of --format_files after the split at commas: the path of the
\* header_page format file, the paths of two event format files, a path that
\* cannot be read, and an empty element.
HeaderPagePath == "formats/header_page"

FormatPaths ==
  { HeaderPagePath, "formats/sched_switch", "formats/sched_wakeup",
    "formats/missing", "" }

HasSuffixHeaderPage(path) == path = HeaderPagePath

\* ioutil.ReadFile: the content of a file is named after its path here.
ReadFile(path) ==
  IF path = "formats/missing" THEN [buf |-> "", err |-> TRUE]
  ELSE [buf |-> path, err |-> FALSE]

FormatFlags ==
  { [formatFilePaths |-> p, outputPath |-> o] :
      p \in UNION { [1..n -> FormatPaths] : n \in 0..MaxFormatPaths },
      o \in {"", "out"} }

IdleFormats ==
  [pc |-> "idle", flags |-> [formatFilePaths |-> << >>, outputPath |-> ""],
   filteredFormatFilePaths |-> << >>, formatFiles |-> << >>,
   headerContent |-> "", i |-> 0, k |-> 0]

ConvInit ==
  /\ c = NilCollection
  /\ events = << >>
  /\ pc = "idle"
  /\ rawEvents = << >>
  /\ query = NoQuery
  /\ fs \in FileSystems
  /\ conv = [IdleConverter EXCEPT !.pc = "list"]
  /\ formats = IdleFormats
  /\ stats = NoStats
  /\ overflow = NoResult

\* The directories are listed.
ListFiles ==
  /\ conv.pc = "list"
  /\ conv' = [conv EXCEPT
                !.traceFiles = ReadDir(DOMAIN fs.traceDir),
                !.statsFiles = IF fs.statsFilesPath # ""
                                 THEN ReadDir(DOMAIN fs.statsDir)
                                 ELSE << >>,
                !.pc = "stats",
                !.i = 0]
  /\ UNCHANGED <<collVars, fs, formats, statsVars>>

\* One iteration of the loop over the stats files: the file of that name is
\* opened in the trace directory and handed to CPUOverflowed.
StatsStep(cv, files) ==
  LET name == cv.statsFiles[cv.i + 1] IN
  IF name \notin DOMAIN files.traceDir
    THEN [cv EXCEPT !.pc = "exit"]
    ELSE LET r == CPUOverflowed(files.traceDir[name].text)
         IN [cv EXCEPT
               !.overflowedCPUs = IF r.err /\ r.overflowed
                                    THEN @ \cup {cv.i} ELSE @,
               !.i = @ + 1]

ReadStatsFile ==
  /\ conv.pc = "stats"
  /\ conv.i < Len(conv.statsFiles)
  /\ conv' = StatsStep(conv, fs)
  /\ UNCHANGED <<collVars, fs, formats, statsVars>>

\* eventSetBuilder.SetOverflowedCPUs(overflowedCPUs)
SetOverflowedCPUs ==
  /\ conv.pc = "stats"
  /\ conv.i = Len(conv.statsFiles)
  /\ conv' = [conv EXCEPT !.pc = "trace", !.i = 0]
  /\ UNCHANGED <<collVars, fs, formats, statsVars>>

\* One iteration of the loop over the trace files: the events parsed from
\* the file get the loop index as CPU, and the event-set builder marks the
\* events of an overflowed CPU as clipped.
TraceStep(cv, files) ==
  LET name == cv.traceFiles[cv.i + 1] IN
  IF files.traceDir[name].kind # "trace"
    THEN [cv EXCEPT !.pc = "exit"]
    ELSE [cv EXCEPT
            !.emitted = Append(@, [file |-> name, cpu |-> cv.i,
                                   clipped |-> cv.i \in cv.overflowedCPUs]),
            !.i = @ + 1]

ParseTraceFile ==
  /\ conv.pc = "trace"
  /\ conv.i < Len(conv.traceFiles)
  /\ conv' = TraceStep(conv, fs)
  /\ UNCHANGED <<collVars, fs, formats, statsVars>>

\* Finalize, marshal and write the output.
WriteOutput ==
  /\ conv.pc = "trace"
  /\ conv.i = Len(conv.traceFiles)
  /\ conv' = [conv EXCEPT !.pc = "done"]
  /\ UNCHANGED <<collVars, fs, formats, statsVars>>

ConvNext ==
  ListFiles \/ ReadStatsFile \/ SetOverflowedCPUs \/ ParseTraceFile
    \/ WriteOutput

ConvSpec == ConvInit /\ [][ConvNext]_vars

\* ----------------------------------------- converter: machines of any size
\* The trace directory of a machine with k CPUs holds cpu0 .. cpu(k-1); the
\* stats directory is another directory with the same names, in which at
\* most one file reports an overrun.
CleanStatsText == createStatsString(Stats(<<"1">>, <<"0">>, <<"0">>, <<"0">>))

OverrunStatsText ==
  createStatsString(Stats(<<"1">>, <<"1">>, <<"0">>, <<"0">>))

MachineFileSystems ==
  UNION { { [traceDir |-> [n \in 0..(k - 1) |-> TraceContent],
             statsDir |-> [n \in 0..(k - 1) |->
                             StatsContent(IF n = o THEN OverrunStatsText
                                                   ELSE CleanStatsText)],
             statsFilesPath |-> sp] :
              o \in {-1, 0, k - 1}, sp \in {"", "stats"} } :
          k \in 1..MaxTraceCPUs }

MachineInit ==
  /\ c = NilCollection
  /\ events = << >>
  /\ pc = "idle"
  /\ rawEvents = << >>
  /\ query = NoQuery
  /\ fs \in MachineFileSystems
  /\ conv = [IdleConverter EXCEPT !.pc = "list"]
  /\ formats = IdleFormats
  /\ stats = NoStats
  /\ overflow = NoResult

MachineSpec == MachineInit /\ [][ConvNext]_vars

\* ------------------------------------------- converter: the format files
FormatInit ==
  /\ c = NilCollection
  /\ events = << >>
  /\ pc = "idle"
  /\ rawEvents = << >>
  /\ query = NoQuery
  /\ fs = NoFiles
  /\ conv = IdleConverter
  /\ formats \in { [IdleFormats EXCEPT !.pc = "flags", !.flags = f] :
                     f \in FormatFlags }
  /\ stats = NoStats
  /\ overflow = NoResult

\* filterSlice with the test s # "".
filterSlice(paths) == SelectSeq(paths, LAMBDA p : p # "")

\* The flags are split and checked, and the slice for the contents of the
\* event format files is made, one element shorter than the list of paths.
CheckFlags ==
  /\ formats.pc = "flags"
  /\ LET filtered == filterSlice(formats.flags.formatFilePaths) IN
     formats' =
       IF Len(filtered) < 2 \/ formats.flags.outputPath = ""
         THEN [formats EXCEPT !.filteredFormatFilePaths = filtered,
                              !.pc = "exit"]
         ELSE [formats EXCEPT
                 !.filteredFormatFilePaths = filtered,
                 !.formatFiles = [j \in 1..(Len(filtered) - 1) |-> ""],
                 !.i = 0, !.k = 0, !.pc = "read"]
  /\ UNCHANGED <<collVars, fs, conv, statsVars>>

\* One iteration of the loop over the format files.  Writing to
\* formatFiles[i] with i = len(formatFiles) is a run-time panic.
FormatStep(f) ==
  LET path == f.filteredFormatFilePaths[f.k + 1]
      r    == ReadFile(path)
  IN IF r.err THEN [f EXCEPT !.pc = "exit"]
     ELSE IF HasSuffixHeaderPage(path)
       THEN [f EXCEPT !.headerContent = r.buf, !.k = @ + 1]
     ELSE IF f.i >= Len(f.formatFiles)
       THEN [f EXCEPT !.pc = "panic"]
     ELSE [f EXCEPT !.formatFiles[f.i + 1] = r.buf,
                    !.i = @ + 1, !.k = @ + 1]

ReadFormatFile ==
  /\ formats.pc = "read"
  /\ formats.k < Len(formats.filteredFormatFilePaths)
  /\ formats' = FormatStep(formats)
  /\ UNCHANGED <<collVars, fs, conv, statsVars>>

\* After the loop: without a header the converter exits, otherwise the
\* formats are handed to traceparser.New.
CheckHeader ==
  /\ formats.pc = "read"
  /\ formats.k = Len(formats.filteredFormatFilePaths)
  /\ formats' = [formats EXCEPT
                   !.pc = IF formats.headerContent = "" THEN "exit"
                                                        ELSE "parse"]
  /\ UNCHANGED <<collVars, fs, conv, statsVars>>

FormatNext == CheckFlags \/ ReadFormatFile \/ CheckHeader

FormatSpec == FormatInit /\ [][FormatNext]_vars

\* ------------------------------------------------- CPUOverflowed on a text
StatsInit ==
  /\ c = NilCollection
  /\ events = << >>
  /\ pc = "idle"
  /\ rawEvents = << >>
  /\ query = NoQuery
  /\ fs = NoFiles
  /\ conv = IdleConverter
  /\ formats = IdleFormats
  /\ stats \in { Stats(e, o, co, d) :
                   e \in {<<"0">>, <<"1">>}, o \in Values,
                   co \in Values, d \in Values }
  /\ overflow = NoResult

\* TestReadStats: CPUOverflowed is called on the text built from the
\* counters.
ReadStats ==
  /\ conv.pc = "idle" /\ pc = "idle"
  /\ ~overflow.called
  /\ overflow' = [called |-> TRUE,
                  overflowed |-> CPUOverflowed(createStatsString(stats))
                                   .overflowed,
                  err |-> CPUOverflowed(createStatsString(stats)).err]
  /\ UNCHANGED <<collVars, convVars, stats>>

StatsNext == ReadStats

StatsSpec == StatsInit /\ [][StatsNext]_vars

\* ---------------------------------------------------------------- actions
Init ==
  /\ c \in { NewCollectionValue(n) : n \in {TRUE, FALSE} }
  /\ events = << >>
  /\ pc = "building"
  /\ rawEvents = << >>
  /\ query = NoQuery
  /\ fs = NoFiles
  /\ conv = IdleConverter
  /\ formats = IdleFormats
  /\ stats = NoStats
  /\ overflow = NoResult

\* The event loop reads the next event of the event set.
LoadStep(ev) ==
  LET st == LoopBody(c, ev, Len(events)) IN
  /\ events' = Append(events, ev)
  /\ IF st.err
       THEN c' = NilCollection /\ pc' = "failed"
       ELSE c' = st /\ pc' = "building"

LoadEvent ==
  /\ pc = "building"
  /\ Len(events) < MaxEvents
  /\ \E ev \in Events : LoadStep(ev)
  /\ UNCHANGED <<rawEvents, query, convVars, statsVars>>

\* The same step for an event whose timestamp equals UnknownTimestamp.
LoadSentinelEvent ==
  /\ pc = "building"
  /\ Len(events) < MaxEvents
  /\ \E ev \in SentinelEvents : LoadStep(ev)
  /\ UNCHANGED <<rawEvents, query, convVars, statsVars>>

\* The event set is exhausted: NewCollection finishes.
Finish ==
  /\ pc = "building"
  /\ LET st == buildSpansByPIDFinish(c) IN
       IF st.err
         THEN c' = NilCollection /\ pc' = "failed"
         ELSE /\ \E order \in IterationOrders(DOMAIN st.spansByPID) :
                   c' = buildSpansByCPU(st, order)
              /\ pc' = "ready"
  /\ UNCHANGED <<events, rawEvents, query, convVars, statsVars>>

GetRawEvents ==
  /\ pc = "ready"
  /\ \E filterCPUs \in {CPUs, {0}} :
       /\ rawEvents' = GetRawEventsResult(c, events, filterCPUs)
       /\ events' = EventByIndexStore(c, events, filterCPUs)
       /\ query' = Query("GetRawEvents", ExpandSet(filterCPUs), << >>)
  /\ UNCHANGED <<c, pc, convVars, statsVars>>

\* Interval(TimeRange(r[1], r[2])).
Interval ==
  /\ pc = "ready"
  /\ \E r \in TimeRanges :
       query' = Query("Interval", r, IntervalResult(c, r))
  /\ rawEvents' = << >>
  /\ UNCHANGED <<c, events, pc, convVars, statsVars>>

DroppedEventIDs ==
  /\ pc = "ready"
  /\ \E order \in IterationOrders(DOMAIN c.droppedEventCountsByID) :
       query' = Query("DroppedEventIDs", << >>,
                      DroppedEventIDsResult(order))
  /\ rawEvents' = << >>
  /\ UNCHANGED <<c, events, pc, convVars, statsVars>>

SyntheticTransitionCount ==
  /\ pc = "ready"
  /\ query' = Query("SyntheticTransitionCount", << >>,
                    << c.syntheticTransitionCount >>)
  /\ rawEvents' = << >>
  /\ UNCHANGED <<c, events, pc, convVars, statsVars>>

ExpandCPUs ==
  /\ pc = "ready"
  /\ \E cpus \in {<< >>, <<1>>} :
       \E order \in IterationOrders(CPUsResult(c, CPUs)) :
         query' = Query("ExpandCPUs", cpus, ExpandCPUsResult(cpus, order))
  /\ rawEvents' = << >>
  /\ UNCHANGED <<c, events, pc, convVars, statsVars>>

LookupCommand ==
  /\ pc = "ready"
  /\ \E command \in StringIDs :
       LET r == LookupCommandResult(c, command) IN
       query' = [Query("LookupCommand", << command >>, << >>)
                   EXCEPT !.str = r.str, !.err = r.err]
  /\ rawEvents' = << >>
  /\ UNCHANGED <<c, events, pc, convVars, statsVars>>

Queries ==
  GetRawEvents \/ Interval \/ DroppedEventIDs \/ SyntheticTransitionCount
    \/ ExpandCPUs \/ LookupCommand

Next == LoadEvent \/ LoadSentinelEvent \/ Finish \/ GetRawEvents

Spec == Init /\ [][Next]_vars

\* The event loop on an event set that is sorted by timestamp and holds no
\* timestamp with the value of the sentinel.
LoadOrderedEvent ==
  /\ pc = "building"
  /\ Len(events) < MaxEvents
  /\ \E ev \in Events :
       /\ Len(events) > 0 => events[Len(events)].timestamp <= ev.timestamp
       /\ LoadStep(ev)
  /\ UNCHANGED <<rawEvents, query, convVars, statsVars>>

OrderedNext == LoadOrderedEvent \/ Finish \/ GetRawEvents

OrderedSpec == Init /\ [][OrderedNext]_vars

\* The events of the two-thread switch and of the migration scenario, a
\* wakeup of a thread and a context switch on another CPU.
ScenarioShapes ==
  { Event("sched_switch", 0, 1, 0, 2, UnknownCPU),
    Event("sched_switch", 0, 2, 1, 1, UnknownCPU),
    Event("sched_migrate_task", 0, 2, 0, UnknownPID, 1),
    Event("sched_migrate_task", 0, 1, 0, UnknownPID, 1),
    Event("sched_wakeup", 0, 1, 0, UnknownPID, 0),
    Event("sched_switch", 1, 1, 0, 2, UnknownCPU) }

\* The event loop on a trace of these events: the first event has the
\* timestamp 0 or 1 and every other event comes one tick after the one
\* before it.
LoadScenarioEvent ==
  /\ pc = "building"
  /\ Len(events) < MaxScenarioEvents
  /\ \E e \in ScenarioShapes :
       \E t \in IF Len(events) = 0
                  THEN {0, 1}
                  ELSE {events[Len(events)].timestamp + 1} :
         LoadStep([e EXCEPT !.timestamp = t])
  /\ UNCHANGED <<rawEvents, query, convVars, statsVars>>

ScenarioNext == LoadScenarioEvent \/ Finish \/ Queries

ScenarioSpec == Init /\ [][ScenarioNext]_vars

\* ------------------------------------------------------------- properties
Built == pc = "ready"

SeqRange(q) == { q[i] : i \in 1..Len(q) }

AllSpans == UNION { SeqRange(c.spansByPID[p]) : p \in DOMAIN c.spansByPID }

\* An event a loader is registered for and that inference may use.
IsSchedEvent(ev) ==
  ev.name \in {"sched_switch", "sched_wakeup", "sched_migrate_task"}

Usable(ev) == ~ev.clipped /\ IsSchedEvent(ev)

UsableIndices == { i \in 1..Len(events) : Usable(events[i]) }

Tiles(sp, s, e) ==
  /\ Len(sp) >= 1
  /\ sp[1].startTimestamp = s
  /\ sp[Len(sp)].endTimestamp = e
  /\ \A i \in 1..Len(sp) : sp[i].startTimestamp <= sp[i].endTimestamp
  /\ \A i \in 1..(Len(sp) - 1) :
       sp[i].endTimestamp = sp[i + 1].startTimestamp

\* C1: after NewCollection succeeds, the spans of every PID are ordered,
\* each ends where the next starts, the first starts at the collection start
\* timestamp and the last ends at the collection end timestamp.
C1_SpansTileInterval ==
  Built => \A p \in DOMAIN c.spansByPID :
             Tiles(c.spansByPID[p], c.startTimestamp, c.endTimestamp)

C1_Witness ==
  /\ Built
  /\ c.startTimestamp < c.endTimestamp
  /\ \E p \in DOMAIN c.spansByPID :
       /\ Len(c.spansByPID[p]) >= 3
       /\ \E i \in 1..Len(c.spansByPID[p]) :
            c.spansByPID[p][i].startTimestamp
              < c.spansByPID[p][i].endTimestamp

Overlap(a, b) ==
  a.startTimestamp < b.endTimestamp /\ b.startTimestamp < a.endTimestamp

\* C2: after NewCollection succeeds, no two running spans of one CPU
\* overlap in time.
C2_RunningSpansDisjoint ==
  Built => \A cpu \in DOMAIN c.runningSpansByCPU :
             \A i, j \in 1..Len(c.runningSpansByCPU[cpu]) :
               i < j => ~Overlap(c.runningSpansByCPU[cpu][i],
                                 c.runningSpansByCPU[cpu][j])

\* C3: every finalized thread span has start_ts strictly less than end_ts.
C3_SpansNonEmpty ==
  Built => \A sp \in AllSpans : sp.startTimestamp < sp.endTimestamp

FirstIn(S) == CHOOSE i \in S : \A j \in S : i <= j

Unclipped == { i \in 1..Len(events) : ~events[i].clipped }

Anchors ==
  { i \in UsableIndices : events[i].timestamp # UnknownTimestamp }

C6_NoNegativeTimestamp ==
  (Built /\ c.options.normalizeTimestamps) =>
     /\ \A k \in 1..Len(rawEvents) : rawEvents[k].timestamp >= 0
     /\ \A sp \in AllSpans : sp.startTimestamp >= 0
     /\ \A k \in 1..Len(c.ThreadTransitions) :
          c.ThreadTransitions[k].timestamp >= 0

\* C7: NewCollection fails with a nil collection when the event set holds no
\* unclipped event that yields a transition, and a collection it returns has
\* an initialised span set.
C7_NoUsableEventIsError ==
  /\ (pc # "building" /\ UsableIndices = {}) =>
        (pc = "failed" /\ c = NilCollection)
  /\ Built => c.ts.made

C7_Witness ==
  /\ pc = "failed"
  /\ Len(events) = 2
  /\ events[1].clipped /\ IsSchedEvent(events[1])
  /\ events[2].name = "other" /\ ~events[2].clipped

\* The event loop run over the unclipped events only.
RECURSIVE Replay(_, _, _)
Replay(st, evs, i) ==
  IF i > Len(evs) \/ st.err THEN st
  ELSE Replay(IF evs[i].clipped THEN st ELSE LoopBody(st, evs[i], i - 1),
              evs, i + 1)

WithoutClipped ==
  Replay(NewCollectionValue(c.options.normalizeTimestamps), events, 1)

\* C8: clipped events have no part in inference: offset, start and end
\* timestamps, engine state and spans are those of the event set with the
\* clipped events removed.
C8_ClippedEventsExcluded ==
  pc \in {"building", "ready"} =>
    LET w == WithoutClipped IN
    /\ pc = "building" => c = w
    /\ Built =>
         /\ c.normalizationOffset = w.normalizationOffset
         /\ c.startTimestamp = w.startTimestamp
         /\ c.endTimestamp = w.endTimestamp
         /\ c.ts = w.ts
         /\ c.spansByPID = threadSpans(w.ts, w.endTimestamp)

C8_Witness ==
  /\ Built
  /\ Len(events) = 2
  /\ events[1].clipped /\ events[1].name = "sched_switch"
  /\ events[1].timestamp < events[2].timestamp
  /\ Usable(events[2])

\* The stats loop of the converter has run to its end.
StatsLoopDone == conv.pc \in {"trace", "done"}

ReportsOverflow(text) ==
  \E i \in 1..Len(text) :
    /\ text[i].key \in OverflowKeys
    /\ ParseInt(text[i].val) > 0

\* C9: when a stats directory is given and the stats file of CPU k is read
\* without error and reports a non-zero overrun, commit overrun or dropped
\* events counter, CPU k is in the overflowed set and the events of trace
\* file cpuk are emitted clipped.
C9_OverflowedCPUIsClipped ==
  (StatsLoopDone /\ fs.statsFilesPath # "") =>
     \A k \in DOMAIN fs.statsDir :
       (/\ fs.statsDir[k].kind = "stats"
        /\ ~CPUOverflowed(fs.statsDir[k].text).err
        /\ ReportsOverflow(fs.statsDir[k].text)) =>
          /\ k \in conv.overflowedCPUs
          /\ \A j \in 1..Len(conv.emitted) :
               conv.emitted[j].file = k => conv.emitted[j].clipped

AllDigits(v) == \A i \in 1..Len(v) : IsDigit(v[i])

NonZero(v) == \E i \in 1..Len(v) : v[i] # "0"

WellFormed(st) ==
  AllDigits(st.overrun) /\ AllDigits(st.commitOverrun)
    /\ AllDigits(st.droppedEvents)

BeforeAt(n) ==
  Replay(NewCollectionValue(c.options.normalizeTimestamps),
         SubSeq(events, 1, n - 1), 1)

\* The transitions the loader builds from event n.
TransitionsAt(n) ==
  IF events[n].clipped THEN << >> ELSE threadTransitions(events[n], n - 1)

CPUConflict(st, tt) ==
  st.ts.made /\ Conflict(st.ts.cur[tt.pid].cpu, tt.prevCPU, UnknownCPU)

StateConflict(st, tt) ==
  st.ts.made
    /\ Conflict(st.ts.cur[tt.pid].state, tt.prevState, UnknownState)

ConflictAt(n) ==
  \E k \in 1..Len(TransitionsAt(n)) :
    \/ CPUConflict(BeforeAt(n), TransitionsAt(n)[k])
    \/ StateConflict(BeforeAt(n), TransitionsAt(n)[k])

\* C11: DroppedEventIDs returns a list in ascending order, without
\* repetition, of indices of events of the event set.
C11_DroppedEventIDsSorted ==
  query.op = "DroppedEventIDs" =>
    /\ \A i \in 1..(Len(query.ints) - 1) : query.ints[i] < query.ints[i + 1]
    /\ \A i \in 1..Len(query.ints) : query.ints[i] \in 0..(Len(events) - 1)

C11_Witness ==
  /\ query.op = "DroppedEventIDs"
  /\ Len(query.ints) >= 2

\* C12: a conflict between the transitions of timestamp-ordered scheduling
\* events never makes NewCollection fail; it shows in the dropped-event map
\* and in the count of synthetic transitions of the collection.
C12_ConflictsNotSurfaced ==
  /\ Len(events) >= 1 => pc # "failed"
  /\ Built =>
       /\ c.droppedEventCountsByID = c.ts.droppedEventCountsByID
       /\ c.syntheticTransitionCount = c.ts.syntheticTransitionCount
       /\ (\E n \in 1..Len(events) : ConflictAt(n)) =>
             \/ DOMAIN c.droppedEventCountsByID # {}
             \/ c.syntheticTransitionCount > 0

C12_Witness ==
  /\ Built
  /\ DOMAIN c.droppedEventCountsByID # {}
  /\ c.syntheticTransitionCount > 0

\* C13: a transition whose prev-CPU contradicts the known CPU of its PID is
\* dropped: its event index is counted in the dropped-event map and the
\* current tuple and the spans of the PID stay as they were.
C13_CPUConflictDropsSelf ==
  (pc = "building" /\ Len(events) >= 1) =>
    LET n == Len(events)
        b == BeforeAt(n)
    IN \A k \in 1..Len(TransitionsAt(n)) :
         LET tt == TransitionsAt(n)[k] IN
         CPUConflict(b, tt) =>
           /\ (n - 1) \in DOMAIN c.ts.droppedEventCountsByID
           /\ c.ts.cur[tt.pid] = b.ts.cur[tt.pid]
           /\ c.ts.spans[tt.pid] = b.ts.spans[tt.pid]

\* A sched_switch on CPU 0 for a PID that a sched_migrate_task moved away.
C13_Witness ==
  /\ pc = "building"
  /\ Len(events) = 3
  /\ events[2].name = "sched_migrate_task" /\ events[2].pid = 2
  /\ events[3].name = "sched_switch" /\ events[3].pid = 2
  /\ events[3].cpu = 0
  /\ c.ts.cur[2].cpu = 1
  /\ 2 \in DOMAIN c.ts.droppedEventCountsByID

\* A wakeup of a PID whose known state is not SLEEPING.
WakeWithoutSleepAt(n) ==
  /\ ~events[n].clipped
  /\ events[n].name = "sched_wakeup"
  /\ BeforeAt(n).ts.made
  /\ BeforeAt(n).ts.cur[events[n].pid].state
       \notin {UnknownState, SleepingState}

\* C14: such a wakeup inserts one synthetic transition and is not dropped,
\* the count of synthetic transitions never decreases while events are
\* processed, and SyntheticTransitionCount() is at least 1 afterwards.
C14_WakeInsertsSynthetic ==
  /\ (pc = "building" /\ Len(events) >= 1) =>
       LET n == Len(events)
           b == BeforeAt(n)
       IN /\ c.ts.syntheticTransitionCount >= b.ts.syntheticTransitionCount
          /\ WakeWithoutSleepAt(n) =>
               /\ c.ts.syntheticTransitionCount
                    = b.ts.syntheticTransitionCount + 1
               /\ (n - 1) \notin DOMAIN c.ts.droppedEventCountsByID
               /\ c.ts.cur[events[n].pid].state = WaitingState
  /\ (Built /\ \E n \in 1..Len(events) : WakeWithoutSleepAt(n)) =>
       /\ c.syntheticTransitionCount >= 1
       /\ query.op = "SyntheticTransitionCount" => query.ints[1] >= 1

C14_Witness ==
  /\ Built
  /\ query.op = "SyntheticTransitionCount"
  /\ query.ints[1] >= 1
  /\ \E n \in 1..Len(events) : WakeWithoutSleepAt(n)

\* The two-thread switch scenario, thread 1 standing for PID 100, thread 2
\* for PID 200 and one tick for 1000.
S1Events ==
  << [Event("sched_switch", 0, 1, 0, 2, UnknownCPU) EXCEPT !.timestamp = 1],
     [Event("sched_switch", 0, 2, 1, 1, UnknownCPU) EXCEPT !.timestamp = 2] >>

StateOver(sp) ==
  [i \in 1..Len(sp) |->
     << sp[i].state, sp[i].startTimestamp, sp[i].endTimestamp >>]

\* C15: for the two-thread switch scenario the first thread is RUNNING on
\* CPU 0 over [0,1), WAITING over [1,2) and RUNNING over [2,end), and the
\* second thread is WAITING over [0,1), RUNNING over [1,2) and SLEEPING over
\* [2,end).
C15_TwoThreadSwitchSpans ==
  (Built /\ events = S1Events) =>
    /\ StateOver(c.spansByPID[1])
         = << <<RunningState, 0, 1>>, <<WaitingState, 1, 2>>,
              <<RunningState, 2, c.endTimestamp>> >>
    /\ c.spansByPID[1][1].cpu = 0
    /\ StateOver(c.spansByPID[2])
         = << <<WaitingState, 0, 1>>, <<RunningState, 1, 2>>,
              <<SleepingState, 2, c.endTimestamp>> >>

\* The spans held by the per-CPU running vectors and interval trees.
IndexedSpans ==
  UNION { SeqRange(c.runningSpansByCPU[cpu]) \cup c.sleepingSpansByCPU[cpu]
            \cup c.waitingSpansByCPU[cpu] : cpu \in DOMAIN c.runningSpansByCPU }

MaxOf(S) == CHOOSE x \in S : \A y \in S : y <= x

\* The events that yield transitions are in timestamp order.
TransitionsInOrder ==
  \A i, j \in UsableIndices :
    i < j => events[i].timestamp <= events[j].timestamp

\* No event that yields transitions has a timestamp below that of an earlier
\* one none of whose transitions was dropped (event i of the sequence has
\* index i - 1).
AppliedInOrder ==
  \A i, j \in UsableIndices :
    (i < j /\ (i - 1) \notin DOMAIN c.droppedEventCountsByID)
      => events[i].timestamp <= events[j].timestamp

C20_ProjectionDeterministic ==
  Built => \A order \in IterationOrders(DOMAIN c.spansByPID) :
             buildSpansByCPU(c, order) = c

\* C21: LookupCommand(UnknownCommand) returns "<unknown>" and no error,
\* whatever the string table holds; for an id of the string table it returns
\* the string stored under that id and no error; for any other id it returns
\* the empty string and an error.
C21_LookupCommand ==
  query.op = "LookupCommand" =>
    LET id == query.arg[1] IN
    /\ id = UnknownCommand => query.str = "<unknown>" /\ ~query.err
    /\ (id # UnknownCommand /\ id \in 1..Len(c.stringTable))
         => query.str = c.stringTable[id] /\ ~query.err
    /\ (id # UnknownCommand /\ id \notin 1..Len(c.stringTable))
         => query.str = "" /\ query.err

C21_Witness ==
  /\ query.op = "LookupCommand"
  /\ query.arg = << 2 >>
  /\ c.stringTable = << "init", "worker" >>
  /\ query.str = "worker"
  /\ ~query.err

\* The paths of --format_files that are not empty.
ListedPaths == filterSlice(formats.flags.formatFilePaths)

NoHeaderPageListed ==
  \A j \in 1..Len(ListedPaths) : ~HasSuffixHeaderPage(ListedPaths[j])

\* C22: with two or more format files listed and none of them ending in
\* header_page the converter never goes on to parse the formats, and it
\* never writes to the slice of event formats at an index outside the slice.
C22_MissingHeaderIsFatal ==
  /\ formats.pc # "panic"
  /\ (Len(ListedPaths) >= 2 /\ NoHeaderPageListed) => formats.pc # "parse"
  /\ formats.pc = "read" => formats.i <= Len(formats.formatFiles)

\* C23: when the converter is done, every event parsed from the trace file
\* cpuN has CPU N, and it is clipped exactly if a stats directory was given
\* and the stats file cpuN reports an overflow.
C23_EventsCarryFileCPU ==
  conv.pc = "done" =>
    \A j \in 1..Len(conv.emitted) :
      LET N == conv.emitted[j].file IN
      /\ conv.emitted[j].cpu = N
      /\ conv.emitted[j].clipped
           <=> (/\ fs.statsFilesPath # ""
                /\ N \in DOMAIN fs.statsDir
                /\ ReportsOverflow(fs.statsDir[N].text))

\* An unclipped event no loader is registered for.
Unloaded(ev) == ~ev.clipped /\ ~IsSchedEvent(ev)

\* The event loop run over the events other than the unloaded ones, each
\* with its index in the whole event set.
RECURSIVE ReplayLoaded(_, _, _)
ReplayLoaded(st, evs, i) ==
  IF i > Len(evs) \/ st.err THEN st
  ELSE ReplayLoaded(IF Unloaded(evs[i]) THEN st
                                        ELSE LoopBody(st, evs[i], i - 1),
                    evs, i + 1)

WithoutUnloaded ==
  ReplayLoaded(NewCollectionValue(c.options.normalizeTimestamps), events, 1)

\* Offset, start and end timestamps, engine state and spans are those of
\* the event set without the unloaded events.
UnloadedEventsHaveNoEffect ==
  pc \in {"building", "ready"} =>
    LET w == WithoutUnloaded IN
    /\ pc = "building" => c = w
    /\ Built =>
         /\ c.normalizationOffset = w.normalizationOffset
         /\ c.startTimestamp = w.startTimestamp
         /\ c.endTimestamp = w.endTimestamp
         /\ c.ts = w.ts
         /\ c.spansByPID = threadSpans(w.ts, w.endTimestamp)

Returned(i) == \E k \in 1..Len(rawEvents) : rawEvents[k].index = i - 1

C25_ThreadTransitionsComplete ==
  Built =>
    /\ \A i \in UsableIndices :
         \A k \in 1..Len(threadTransitions(events[i], i - 1)) :
           \E m \in 1..Len(c.ThreadTransitions) :
             /\ c.ThreadTransitions[m].eventIndex = i - 1
             /\ c.ThreadTransitions[m].pid
                  = threadTransitions(events[i], i - 1)[k].pid
    /\ \A m, n \in 1..Len(c.ThreadTransitions) :
         m < n => c.ThreadTransitions[m].eventIndex
                    <= c.ThreadTransitions[n].eventIndex

\* C26: once an unclipped event that yields a transition has been read, no
\* later step of the construction changes the normalization offset or the
\* start timestamp, and the collection that is built has
\* startTimestamp <= endTimestamp.
C26_OffsetAssignedOnce ==
  /\ [][(pc = "building" /\ pc' # "failed" /\ UsableIndices # {}) =>
          (/\ c'.normalizationOffset = c.normalizationOffset
           /\ c'.startTimestamp = c.startTimestamp)]_vars
  /\ [](Built => c.startTimestamp <= c.endTimestamp)

====
